---- MODULE Spec2Model ----
(***************************************************************************)
(* A model of split-rename-pdf: one source PDF and a mapping table are     *)
(* turned into one output PDF per table row.  Two iterations of the script *)
(* are modelled: split-rename-pdf.py (version "new") and the older         *)
(* "rename pdf.py" (version "old").                                        *)
(*                                                                         *)
(* Text is modelled as a sequence of one-character strings, so that        *)
(* stripping, substitution, lower-casing and formatting are computed       *)
(* character by character as the code computes them.                       *)
(***************************************************************************)
EXTENDS Integers, Sequences, FiniteSets, TLC

VARIABLES
    version,        \* "new" (split-rename-pdf.py) or "old" (rename pdf.py)
    df,             \* the mapping table: a sequence of rows
    reader,         \* the pages of the source PDF
    folder,         \* the output folder: file name -> document (sequence of pages)
    pre,            \* the output folder as it was before the run
    pc,             \* position of the run
    exit_code,      \* -1 while running, else the process exit code
    error,          \* what ended the run ("" while running or on success)
    idx,            \* number of rows the loop has gone through
    overwrite_all,  \* local variable overwrite_all
    output_name,    \* the column df["output_name"]
    log,            \* history: every prompt asked and every file written, in order
    san_in,         \* sanitizer study: the input text
    san_out,        \* sanitizer study: sanitize_filename(san_in)
    san_again,      \* sanitizer study: sanitize_filename(san_out)
    res_name,       \* resolver study: the base name
    res_out         \* resolver study: the path the resolver returned

vars == <<version, df, reader, folder, pre, pc, exit_code, error, idx,
          overwrite_all, output_name, log, san_in, san_out, san_again,
          res_name, res_out>>

(***************************************************************************)
(* Bounds of the model.                                                    *)
(***************************************************************************)
MaxRows == 2        \* rows of the mapping table
TotalPages == 2     \* pages of the source PDF
MaxPre == 1         \* highest collision suffix of a file present before the run
MaxLen == 3         \* length of a text given to the sanitizer

(***************************************************************************)
(* Program constants.                                                      *)
(***************************************************************************)
ProbeLimit == 10000 \* range(1, 10_000) in unique_output_path

(***************************************************************************)
(* Text.                                                                   *)
(***************************************************************************)
Whitespace == {" ", "\t", "\n"}

UpperCase == <<"A","B","C","D","E","F","G","H","I","J","K","L","M",
               "N","O","P","Q","R","S","T","U","V","W","X","Y","Z">>

LowerCase == <<"a","b","c","d","e","f","g","h","i","j","k","l","m",
               "n","o","p","q","r","s","t","u","v","w","x","y","z">>

Digits == <<"0","1","2","3","4","5","6","7","8","9">>

RECURSIVE lstrip(_, _)
lstrip(s, chars) ==
    IF s # <<>> /\ Head(s) \in chars THEN lstrip(Tail(s), chars) ELSE s

RECURSIVE rstrip(_, _)
rstrip(s, chars) ==
    IF s # <<>> /\ s[Len(s)] \in chars
    THEN rstrip(SubSeq(s, 1, Len(s) - 1), chars)
    ELSE s

\* str.strip(): whitespace removed at both ends
strip(s) == rstrip(lstrip(s, Whitespace), Whitespace)

\* str.strip('_')
strip_underscores(s) == rstrip(lstrip(s, {"_"}), {"_"})

lower_char(c) ==
    IF \E i \in 1..Len(UpperCase) : UpperCase[i] = c
    THEN LowerCase[CHOOSE i \in 1..Len(UpperCase) : UpperCase[i] = c]
    ELSE c

\* str.lower()
lower(s) == [i \in 1..Len(s) |-> lower_char(s[i])]

\* the character class [\/:*?"<>|\s] : in it \/ is an escaped slash, so the
\* class holds / : * ? " < > | and whitespace, and no backslash
SanitizeClass == {"/", ":", "*", "?", "\"", "<", ">", "|"} \cup Whitespace

\* re.sub(r'[\/:*?"<>|\s]+', '_', s): every maximal run of class characters
\* becomes one underscore
RECURSIVE re_sub_runs(_)
re_sub_runs(s) ==
    IF s = <<>> THEN <<>>
    ELSE IF Head(s) \in SanitizeClass
         THEN <<"_">> \o re_sub_runs(lstrip(Tail(s), SanitizeClass))
         ELSE <<Head(s)>> \o re_sub_runs(Tail(s))

\* a plausible slip: the underscores are stripped before the substitution
sanitize_filename_strip_first(value) ==
    lower(re_sub_runs(strip_underscores(strip(value))))

sanitize_filename(value) ==
    LET cleaned == re_sub_runs(strip(value))
    IN  lower(strip_underscores(cleaned))

\* the older script: the class [\/:*?"<>|] without whitespace, one underscore
\* per character, no lower-casing
OldSanitizeClass == {"/", ":", "*", "?", "\"", "<", ">", "|"}

old_sanitize_filename(name) ==
    LET s == strip(name)
    IN  [i \in 1..Len(s) |-> IF s[i] \in OldSanitizeClass THEN "_" ELSE s[i]]

\* formatting of an int inside an f-string / str.format
RECURSIVE int_to_str(_)
int_to_str(n) ==
    IF n < 0 THEN <<"-">> \o int_to_str(-n)
    ELSE IF n < 10 THEN <<Digits[n + 1]>>
    ELSE int_to_str(n \div 10) \o <<Digits[(n % 10) + 1]>>

(***************************************************************************)
(* Sanitizer study: the sanitizer applied once, then again to its output.  *)
(***************************************************************************)
SanAlphabet == {"a", "B", " ", "_", "/", "\\"}

Texts(n) == UNION {[1..k -> SanAlphabet] : k \in 0..n}

Idle ==
    /\ version = "none" /\ df = <<>> /\ reader = <<>> /\ folder = <<>>
    /\ pre = <<>> /\ exit_code = -1 /\ error = "" /\ idx = 0
    /\ overwrite_all = FALSE /\ output_name = <<>> /\ log = <<>>

InitSanitize ==
    /\ Idle
    /\ pc = "sanitize"
    /\ san_in \in Texts(MaxLen)
    /\ san_out = <<>> /\ san_again = <<>>
    /\ res_name = <<>> /\ res_out = <<>>

Sanitize ==
    /\ pc = "sanitize"
    /\ san_out' = sanitize_filename(san_in)
    /\ pc' = "sanitized"
    /\ UNCHANGED <<version, df, reader, folder, pre, exit_code, error, idx,
                   overwrite_all, output_name, log, san_in, san_again,
                   res_name, res_out>>

SanitizeAgain ==
    /\ pc = "sanitized"
    /\ san_again' = sanitize_filename(san_out)
    /\ pc' = "sanitized_twice"
    /\ UNCHANGED <<version, df, reader, folder, pre, exit_code, error, idx,
                   overwrite_all, output_name, log, san_in, san_out,
                   res_name, res_out>>

NextSanitize == Sanitize \/ SanitizeAgain

SpecSanitize == InitSanitize /\ [][NextSanitize]_vars

(***************************************************************************)
(* Claims about the sanitizer.                                             *)
(***************************************************************************)
ReservedChars == {"/", "\\", ":", "*", "?", "\"", "<", ">", "|"}

Chars(s) == {s[i] : i \in 1..Len(s)}

IsUpper(c) == \E i \in 1..Len(UpperCase) : UpperCase[i] = c

\* C7: the output of sanitize_filename holds no whitespace, none of the
\* characters / \ : * ? " < > |, no leading or trailing underscore and no
\* uppercase letter.
C7_SanitizedIsSafe ==
    pc \in {"sanitized", "sanitized_twice"} =>
        /\ Chars(san_out) \cap (Whitespace \cup ReservedChars) = {}
        /\ san_out # <<>> => (Head(san_out) # "_" /\ san_out[Len(san_out)] # "_")
        /\ \A c \in Chars(san_out) : ~IsUpper(c)

\* C8: sanitize_filename is idempotent.
C8_SanitizeIdempotent ==
    pc = "sanitized_twice" => san_again = san_out

\* C8 witness: a text the sanitizer changes has been sanitized twice.
C8_Witness ==
    /\ pc = "sanitized_twice"
    /\ san_out # san_in
    /\ san_out # <<>>
    /\ "_" \in Chars(san_out)

(***************************************************************************)
(* The run: data.                                                          *)
(***************************************************************************)
\* a missing cell (pandas NA in the new script, NaN in the old one)
NA == <<"<NA>">>

\* str(value) of a text cell
str_new(value) == IF value = NA THEN <<"<", "N", "A", ">">> ELSE value

str_old(value) == IF value = NA THEN <<"n", "a", "n">> ELSE value

PdfExt == <<".", "p", "d", "f">>

\* the source PDF: page i has content <<"page", i>>
SourcePages == [i \in 1..TotalPages |-> <<"page", i>>]

\* a document that was in the output folder before the run
OldDoc == << <<"stale", 0>> >>

Products == {NA, <<" ">>, <<"1">>}

\* page ranges: two valid ones, then pdf_start < 1, pdf_end > total_pages and
\* pdf_start > pdf_end
Ranges == {<<1, TotalPages>>, <<2, TotalPages>>, <<0, 1>>,
           <<TotalPages, TotalPages + 1>>, <<2, 1>>}

Row(products, range) ==
    [yearbook |-> <<"A", "c">>, year |-> <<"2", "0">>,
     category |-> <<"S", " ", "p">>, products |-> products,
     yearbook_start |-> 1, yearbook_end |-> 5,
     pdf_start |-> range[1], pdf_end |-> range[2]]

Rows == {Row(p, r) : p \in Products, r \in Ranges}

Tables == UNION {[1..k -> Rows] : k \in 0..MaxRows}

\* what the operator may type at a prompt
Answers == {<<"Y", " ">>, <<"n">>, <<"x">>, <<>>}

PromptEntry(prompt, answer) ==
    [kind |-> "prompt", prompt |-> prompt, answer |-> answer, row |-> 0,
     path |-> <<>>, existed |-> FALSE, doc |-> <<>>]

WriteEntry(row, path, existed, doc) ==
    [kind |-> "write", prompt |-> "", answer |-> <<>>, row |-> row,
     path |-> path, existed |-> existed, doc |-> doc]

\* open(path, "wb") and writer.write(f): the file is created or replaced
write_file(dir, path, doc) ==
    [p \in (DOMAIN dir) \cup {path} |-> IF p = path THEN doc ELSE dir[p]]

(***************************************************************************)
(* The run: the functions of split-rename-pdf.py.                          *)
(***************************************************************************)
\* a plausible slip: an invalid answer is taken as "n"
ask_yes_no_lenient(answer) ==
    IF lower(strip(answer)) = <<"y">> THEN "yes" ELSE "no"

\* "yes" (True), "no" (False) or "exit" (sys.exit(1))
ask_yes_no(answer) ==
    LET choice == lower(strip(answer))
    IN  IF choice \notin {<<"y">>, <<"n">>} THEN "exit"
        ELSE IF choice = <<"y">> THEN "yes" ELSE "no"

empty_products(d) ==
    {i \in DOMAIN d :
        d[i].products = NA \/ strip(str_new(d[i].products)) = <<>>}

\* a plausible slip: the run goes on after the operator answers "n"
handle_empty_products_goes_on(d, answer) ==
    LET empty == empty_products(d)
        filled == [i \in DOMAIN d |->
                     IF i \in empty THEN [d[i] EXCEPT !.products = <<>>] ELSE d[i]]
    IN  IF empty = {} THEN [asked |-> FALSE, exit |-> "", df |-> d]
        ELSE IF ask_yes_no(answer) = "exit"
             THEN [asked |-> TRUE, exit |-> "invalid_input", df |-> d]
             ELSE [asked |-> TRUE, exit |-> "", df |-> filled]

\* asked: whether the prompt was shown; exit: "" or why the run ended;
\* df: the table returned
handle_empty_products(d, answer) ==
    LET empty == empty_products(d)
        filled == [i \in DOMAIN d |->
                     IF i \in empty THEN [d[i] EXCEPT !.products = <<>>] ELSE d[i]]
    IN  IF empty = {} THEN [asked |-> FALSE, exit |-> "", df |-> d]
        ELSE IF ask_yes_no(answer) = "exit"
             THEN [asked |-> TRUE, exit |-> "invalid_input", df |-> d]
             ELSE IF ask_yes_no(answer) = "no"
                  THEN [asked |-> TRUE, exit |-> "empty_products", df |-> d]
                  ELSE [asked |-> TRUE, exit |-> "", df |-> filled]

generate_output_name(row) ==
    LET yearbook == sanitize_filename(str_new(row.yearbook))
        year     == sanitize_filename(str_new(row.year))
        category == sanitize_filename(str_new(row.category))
        products == sanitize_filename(str_new(row.products))
        stem     == yearbook \o <<"_">> \o category \o <<"_">> \o year \o <<"_">>
                    \o int_to_str(row.yearbook_start) \o <<"_">>
                    \o int_to_str(row.yearbook_end)
    IN  IF products = <<>> THEN stem ELSE stem \o <<"_">> \o products

\* the candidates of the collision resolver: name.pdf, name_1.pdf, name_2.pdf, ...
candidate(name, i) ==
    IF i = 0 THEN name \o PdfExt
    ELSE name \o <<"_">> \o int_to_str(i) \o PdfExt

\* next() on an exhausted generator
StopIteration == <<"StopIteration">>

\* a plausible slip: no probing, the first suffixed name is taken
unique_output_path_first_suffix(dir, name) == candidate(name, 1)

\* the first candidate, in order, that does not exist
unique_output_path(dir, name) ==
    IF \A i \in 0..(ProbeLimit - 1) : candidate(name, i) \in DOMAIN dir
    THEN StopIteration
    ELSE candidate(name,
            CHOOSE i \in 0..(ProbeLimit - 1) :
                /\ candidate(name, i) \notin DOMAIN dir
                /\ \A j \in 0..(i - 1) : candidate(name, j) \in DOMAIN dir)

\* a plausible slip: the overwrite decision is not consulted
resolve_output_path_always_unique(dir, name, overwrite) ==
    IF candidate(name, 0) \in DOMAIN dir
    THEN unique_output_path(dir, name)
    ELSE candidate(name, 0)

\* the path a row is written to
resolve_output_path(dir, name, overwrite) ==
    IF candidate(name, 0) \in DOMAIN dir /\ ~overwrite
    THEN unique_output_path(dir, name)
    ELSE candidate(name, 0)

\* a plausible slip: range(start - 1, end - 1)
extract_pdf_pages_short(pages, start, end) ==
    [k \in 1..(end - start) |-> pages[(start - 1 + (k - 1)) + 1]]

\* the pages the writer holds: reader.pages[i] for i in range(start - 1, end),
\* i counted from 0
extract_pdf_pages(pages, start, end) ==
    [k \in 1..(end - start + 1) |-> pages[(start - 1 + (k - 1)) + 1]]

\* a plausible slip: pdf_start > pdf_end is not tested
invalid_page_range_unordered(pdf_start, pdf_end, total_pages) ==
    pdf_start < 1 \/ pdf_end > total_pages

invalid_page_range(pdf_start, pdf_end, total_pages) ==
    pdf_start < 1 \/ pdf_end > total_pages \/ pdf_start > pdf_end

(***************************************************************************)
(* The run: the functions of the older script.                             *)
(***************************************************************************)
old_output_name(row) ==
    LET yearbook == old_sanitize_filename(str_old(row.yearbook))
        year     == old_sanitize_filename(str_old(row.year))
        category == old_sanitize_filename(str_old(row.category))
        product  == old_sanitize_filename(str_old(row.products))
    IN  yearbook \o <<"_">> \o year \o <<"_">> \o category \o <<"_">>
        \o int_to_str(row.yearbook_start) \o <<"_">>
        \o int_to_str(row.yearbook_end) \o <<"_">> \o product

\* counter = 1; final_output_path = output_path;
\* while os.path.exists(final_output_path): final_output_path = name_counter.pdf; counter += 1
\* The loop tries name.pdf, name_1.pdf, name_2.pdf, ... and leaves with the
\* first one that does not exist; a folder of n files has a free candidate
\* among the first n + 1.
old_final_output_path(dir, name) ==
    candidate(name,
        CHOOSE i \in 0..Cardinality(DOMAIN dir) :
            /\ candidate(name, i) \notin DOMAIN dir
            /\ \A j \in 0..(i - 1) : candidate(name, j) \in DOMAIN dir)

old_add_pages(pages, pdf_first, pdf_last) ==
    [k \in 1..(pdf_last - (pdf_first - 1)) |-> pages[(pdf_first - 1 + (k - 1)) + 1]]

old_invalid_page_range(pdf_first, pdf_last, total_pages) ==
    pdf_first < 1 \/ pdf_last > total_pages \/ pdf_first > pdf_last

(***************************************************************************)
(* The run: state machine.                                                 *)
(***************************************************************************)
PreName(v) ==
    IF v = "new" THEN generate_output_name(Row(<<" ">>, <<1, 1>>))
    ELSE old_output_name(Row(<<" ">>, <<1, 1>>))

PrePaths(v) == {candidate(PreName(v), i) : i \in 0..MaxPre}

NoStudy ==
    /\ san_in = <<>> /\ san_out = <<>> /\ san_again = <<>>
    /\ res_name = <<>> /\ res_out = <<>>

Init ==
    /\ version \in {"new", "old"}
    /\ df \in Tables
    /\ reader = SourcePages
    /\ \E present \in SUBSET PrePaths(version) :
          folder = [p \in present |-> OldDoc]
    /\ pre = folder
    /\ pc = "start"
    /\ exit_code = -1
    /\ error = ""
    /\ idx = 0
    /\ overwrite_all = FALSE
    /\ output_name = <<>>
    /\ log = <<>>
    /\ NoStudy

\* load_excel: an empty table is fatal
LoadExcel ==
    /\ version = "new" /\ pc = "start"
    /\ IF df = <<>>
       THEN pc' = "exit" /\ exit_code' = 1 /\ error' = "excel_validation"
       ELSE pc' = "handle_empty_products" /\ UNCHANGED <<exit_code, error>>
    /\ UNCHANGED <<version, df, reader, folder, pre, idx, overwrite_all,
                   output_name, log, san_in, san_out, san_again, res_name, res_out>>

HandleEmptyProducts ==
    /\ version = "new" /\ pc = "handle_empty_products"
    /\ \E answer \in Answers :
          LET r == handle_empty_products(df, answer)
          IN  /\ log' = IF r.asked
                        THEN Append(log, PromptEntry("empty_products", answer))
                        ELSE log
              /\ df' = r.df
              /\ IF r.exit = ""
                 THEN pc' = "check_existing" /\ UNCHANGED <<exit_code, error>>
                 ELSE pc' = "exit" /\ exit_code' = 1 /\ error' = r.exit
    /\ UNCHANGED <<version, reader, folder, pre, idx, overwrite_all, output_name,
                   san_in, san_out, san_again, res_name, res_out>>

\* the names are generated, and the operator is asked once whether to
\* overwrite when some row's name.pdf is already there
CheckExisting ==
    /\ version = "new" /\ pc = "check_existing"
    /\ LET names == [i \in DOMAIN df |-> generate_output_name(df[i])]
           existing == {i \in DOMAIN df : candidate(names[i], 0) \in DOMAIN folder}
       IN  /\ output_name' = names
           /\ IF existing = {}
              THEN /\ overwrite_all' = FALSE
                   /\ pc' = "loop"
                   /\ UNCHANGED <<log, exit_code, error>>
              ELSE \E answer \in Answers :
                      /\ log' = Append(log, PromptEntry("overwrite_all", answer))
                      /\ IF ask_yes_no(answer) = "exit"
                         THEN /\ pc' = "exit" /\ exit_code' = 1
                              /\ error' = "invalid_input"
                              /\ UNCHANGED overwrite_all
                         ELSE /\ overwrite_all' = (ask_yes_no(answer) = "yes")
                              /\ pc' = "loop"
                              /\ UNCHANGED <<exit_code, error>>
    /\ UNCHANGED <<version, df, reader, folder, pre, idx,
                   san_in, san_out, san_again, res_name, res_out>>

\* one iteration of the row loop
ProcessRow ==
    /\ version = "new" /\ pc = "loop" /\ idx < Len(df)
    /\ idx' = idx + 1
    /\ LET row == df[idx + 1]
           output_path == resolve_output_path(folder, output_name[idx + 1], overwrite_all)
       IN  IF invalid_page_range(row.pdf_start, row.pdf_end, Len(reader))
           THEN /\ pc' = "exit" /\ exit_code' = 1 /\ error' = "invalid_page_range"
                /\ UNCHANGED <<folder, log>>
           ELSE IF output_path = StopIteration
           THEN /\ pc' = "exit" /\ exit_code' = 1 /\ error' = "unexpected_error"
                /\ UNCHANGED <<folder, log>>
           ELSE LET doc == extract_pdf_pages(reader, row.pdf_start, row.pdf_end)
                IN  /\ folder' = write_file(folder, output_path, doc)
                    /\ log' = Append(log, WriteEntry(idx + 1, output_path,
                                                     output_path \in DOMAIN folder, doc))
                    /\ UNCHANGED <<pc, exit_code, error>>
    /\ UNCHANGED <<version, df, reader, pre, overwrite_all, output_name,
                   san_in, san_out, san_again, res_name, res_out>>

Finish ==
    /\ version = "new" /\ pc = "loop" /\ idx = Len(df)
    /\ pc' = "done" /\ exit_code' = 0
    /\ UNCHANGED <<version, df, reader, folder, pre, error, idx, overwrite_all,
                   output_name, log, san_in, san_out, san_again, res_name, res_out>>

OldLoadExcel ==
    /\ version = "old" /\ pc = "start"
    /\ IF df = <<>>
       THEN pc' = "exit" /\ exit_code' = 1 /\ error' = "excel_validation"
       ELSE pc' = "loop" /\ UNCHANGED <<exit_code, error>>
    /\ UNCHANGED <<version, df, reader, folder, pre, idx, overwrite_all,
                   output_name, log, san_in, san_out, san_again, res_name, res_out>>

OldProcessRow ==
    /\ version = "old" /\ pc = "loop" /\ idx < Len(df)
    /\ idx' = idx + 1
    /\ LET row == df[idx + 1]
           new_base_name == old_output_name(row)
       IN  IF old_invalid_page_range(row.pdf_start, row.pdf_end, Len(reader))
           THEN /\ pc' = "exit" /\ exit_code' = 1 /\ error' = "invalid_page_range"
                /\ UNCHANGED <<folder, log, output_name>>
           ELSE LET doc == old_add_pages(reader, row.pdf_start, row.pdf_end)
                    final == old_final_output_path(folder, new_base_name)
                IN  /\ folder' = write_file(folder, final, doc)
                    /\ log' = Append(log, WriteEntry(idx + 1, final,
                                                     final \in DOMAIN folder, doc))
                    /\ output_name' = Append(output_name, new_base_name)
                    /\ UNCHANGED <<pc, exit_code, error>>
    /\ UNCHANGED <<version, df, reader, pre, overwrite_all,
                   san_in, san_out, san_again, res_name, res_out>>

OldFinish ==
    /\ version = "old" /\ pc = "loop" /\ idx = Len(df)
    /\ pc' = "done" /\ exit_code' = 0
    /\ UNCHANGED <<version, df, reader, folder, pre, error, idx, overwrite_all,
                   output_name, log, san_in, san_out, san_again, res_name, res_out>>

Next ==
    \/ LoadExcel
    \/ HandleEmptyProducts
    \/ CheckExisting
    \/ ProcessRow
    \/ Finish
    \/ OldLoadExcel
    \/ OldProcessRow
    \/ OldFinish

Spec == Init /\ [][Next]_vars

TypeOK ==
    /\ pc \in {"start", "handle_empty_products", "check_existing", "loop",
               "done", "exit"}
    /\ exit_code \in {-1, 0, 1}
    /\ idx \in 0..Len(df)

(***************************************************************************)
(* Claims about the run.                                                   *)
(***************************************************************************)
WriteIdx == {k \in DOMAIN log : log[k].kind = "write"}

PromptIdx(prompt) ==
    {k \in DOMAIN log : log[k].kind = "prompt" /\ log[k].prompt = prompt}

AllPromptIdx == {k \in DOMAIN log : log[k].kind = "prompt"}

ValidRange(row) ==
    1 <= row.pdf_start /\ row.pdf_start <= row.pdf_end /\ row.pdf_end <= TotalPages

YesAnswers == {<<"Y", " ">>}

NoAnswers == {<<"n">>}

InvalidAnswers == {<<"x">>, <<>>}

\* the files present just before log entry k was made
ExistingAt(k) ==
    (DOMAIN pre) \cup {log[m].path : m \in {w \in WriteIdx : w < k}}

\* C1: a row with pdf_start < 1, pdf_end > total_pages or pdf_start > pdf_end
\* stops the run with exit code 1; no file is written for it or for a later
\* row, the files of the earlier rows stay, and every file written comes from
\* a row with 1 <= pdf_start <= pdf_end <= total_pages.
C1_InvalidRangeAborts ==
    /\ \A k \in WriteIdx : ValidRange(df[log[k].row])
    /\ \A j \in 1..idx :
          ~ValidRange(df[j]) =>
              /\ j = idx
              /\ pc = "exit" /\ exit_code = 1 /\ error = "invalid_page_range"
    /\ error = "invalid_page_range" =>
          /\ ~ValidRange(df[idx])
          /\ \A k \in WriteIdx : log[k].row < idx
          /\ \A j \in 1..(idx - 1) : \E k \in WriteIdx : log[k].row = j
          /\ \A k \in WriteIdx : log[k].path \in DOMAIN folder
          /\ (DOMAIN pre) \subseteq (DOMAIN folder)

\* C1 witness: the second row has an invalid range; the first row's file was
\* written and is in the folder.
C1_Witness ==
    /\ error = "invalid_page_range" /\ exit_code = 1
    /\ idx = 2
    /\ \E k \in WriteIdx : log[k].row = 1 /\ log[k].path \in DOMAIN folder

\* C2: after a successful run the number of distinct output files written
\* equals the number of rows.
C2_OneFilePerRow ==
    pc = "done" => Cardinality({log[k].path : k \in WriteIdx}) = Len(df)

\* C3 as stated, of the script that has the overwrite prompt: without
\* overwrite-all every write goes to a path that does not exist, no earlier
\* file is replaced, and of two rows with the same base name the second is
\* written as name_1.pdf.
C3_Original ==
    (version = "new" /\ ~overwrite_all) =>
        /\ \A k \in WriteIdx : ~log[k].existed /\ log[k].path \notin ExistingAt(k)
        /\ \A p \in DOMAIN pre : folder[p] = pre[p]
        /\ \A k \in WriteIdx : folder[log[k].path] = log[k].doc
        /\ \A k, m \in WriteIdx :
              (k < m /\ output_name[log[k].row] = output_name[log[m].row]) =>
                  log[m].path = candidate(output_name[log[m].row], 1)

\* C3 amended: without overwrite-all every write goes to a path that does not
\* exist, no earlier file is replaced, and of two rows with the same base
\* name the later is written as name_K.pdf for the least K >= 1 whose path
\* does not exist at the moment of the write.
C3_NoReplaceFirstFreeSuffix ==
    ~overwrite_all =>
        /\ \A k \in WriteIdx : ~log[k].existed /\ log[k].path \notin ExistingAt(k)
        /\ \A p \in DOMAIN pre : folder[p] = pre[p]
        /\ \A k \in WriteIdx : folder[log[k].path] = log[k].doc
        /\ \A k, m \in WriteIdx :
              (k < m /\ output_name[log[k].row] = output_name[log[m].row]) =>
                  \E K \in 1..Cardinality(ExistingAt(m)) :
                      /\ log[m].path = candidate(output_name[log[m].row], K)
                      /\ \A i \in 0..(K - 1) :
                            candidate(output_name[log[m].row], i) \in ExistingAt(m)

\* C3 witness: overwrite-all was declined, two rows have the same base name,
\* and the second of them was written as name_2.pdf.
C3_Witness ==
    /\ version = "new" /\ ~overwrite_all
    /\ \E q \in PromptIdx("overwrite_all") : log[q].answer \in NoAnswers
    /\ \E k, m \in WriteIdx :
          /\ k < m
          /\ output_name[log[k].row] = output_name[log[m].row]
          /\ log[k].path = candidate(output_name[log[k].row], 1)
          /\ log[m].path = candidate(output_name[log[m].row], 2)

\* the new script has evaluated the overwrite question
PastCheckExisting ==
    version = "new" /\ pc \in {"loop", "done", "exit"} /\ output_name # <<>>

\* C5: the overwrite decision is made once, before the row loop, by one
\* prompt asked only if some row's name.pdf is in the folder; after a yes
\* every row is written to exactly name.pdf, and the answer is never changed
\* or asked again.
C5_OverwriteDecidedOnce ==
    /\ Cardinality(PromptIdx("overwrite_all")) <= 1
    /\ \A q \in PromptIdx("overwrite_all") : \A k \in WriteIdx : q < k
    /\ PastCheckExisting =>
          (PromptIdx("overwrite_all") # {}
             <=> \E i \in DOMAIN df : candidate(output_name[i], 0) \in DOMAIN pre)
    /\ overwrite_all <=>
          \E q \in PromptIdx("overwrite_all") : log[q].answer \in YesAnswers
    /\ overwrite_all =>
          \A k \in WriteIdx : log[k].path = candidate(output_name[log[k].row], 0)

\* C5 witness: the operator said yes, the run ended, and a file that was in
\* the folder has been replaced.
C5_Witness ==
    /\ overwrite_all /\ pc = "done"
    /\ Len(df) = 2 /\ Cardinality(WriteIdx) = 2
    /\ \E k \in WriteIdx : log[k].path \in DOMAIN pre

\* C6 as stated: an answer that is neither y nor n never ends the run, the
\* program asks again.
C6_Original ==
    \A q \in AllPromptIdx :
        log[q].answer \in InvalidAnswers => (pc # "exit" /\ exit_code = -1)

\* C6 amended: an answer that is neither y nor n ends the run with exit code
\* 1, nothing is asked again and no file is written.
C6_InvalidAnswerExits ==
    \A q \in AllPromptIdx :
        log[q].answer \in InvalidAnswers =>
            /\ q = Len(log)
            /\ pc = "exit" /\ exit_code = 1 /\ error = "invalid_input"
            /\ WriteIdx = {}
            /\ folder = pre

\* C6 witness: the overwrite prompt got an invalid answer after the
\* blank-products prompt was answered yes.
C6_Witness ==
    /\ Len(log) = 2
    /\ log[1].prompt = "empty_products" /\ log[1].answer \in YesAnswers
    /\ log[2].prompt = "overwrite_all" /\ log[2].answer \in InvalidAnswers
    /\ pc = "exit"

\* C9: every file written holds exactly the source pages pdf_start ..
\* pdf_end in order, pdf_end - pdf_start + 1 of them, and the source
\* document is unchanged.
C9_ExactPages ==
    /\ reader = SourcePages
    /\ \A k \in WriteIdx :
          LET row == df[log[k].row]
              doc == log[k].doc
          IN  /\ Len(doc) = row.pdf_end - row.pdf_start + 1
              /\ \A i \in 1..Len(doc) : doc[i] = <<"page", row.pdf_start + i - 1>>
              /\ (\A m \in WriteIdx : (m > k => log[m].path # log[k].path))
                    => folder[log[k].path] = doc

\* C9 witness: a file of several pages and a file that starts at page 2 have
\* been written by the new script.
C9_Witness ==
    /\ version = "new"
    /\ \E k \in WriteIdx : Len(log[k].doc) >= 2
    /\ \E k \in WriteIdx : df[log[k].row].pdf_start = 2 /\ Len(log[k].doc) >= 1

\* C10: at most two prompts, one for blank products and then one for
\* overwriting, all before any file is written; a no to the blank-products
\* prompt ends the run with exit code 1 and no file written.
C10_PromptsBeforeLoop ==
    /\ Cardinality(AllPromptIdx) <= 2
    /\ Cardinality(PromptIdx("empty_products")) <= 1
    /\ Cardinality(PromptIdx("overwrite_all")) <= 1
    /\ \A q \in PromptIdx("empty_products") : \A r \in PromptIdx("overwrite_all") : q < r
    /\ \A q \in AllPromptIdx : \A k \in WriteIdx : q < k
    /\ \A q \in PromptIdx("empty_products") :
          log[q].answer \in NoAnswers =>
              /\ pc = "exit" /\ exit_code = 1
              /\ WriteIdx = {}
              /\ folder = pre

\* C10 witness: both prompts were asked and files were written afterwards.
C10_Witness ==
    /\ Cardinality(AllPromptIdx) = 2
    /\ WriteIdx # {}
    /\ pc = "done"

\* reachable as well: the operator answered no to the blank-products prompt
BlankProductsDeclined ==
    \E q \in PromptIdx("empty_products") : log[q].answer \in NoAnswers

(***************************************************************************)
(* Resolver study: the collision resolver of either script applied to a    *)
(* base name and a folder.                                                 *)
(***************************************************************************)
ResolverNames ==
    {generate_output_name(Row(p, <<1, 1>>)) : p \in Products}
    \cup {old_output_name(Row(p, <<1, 1>>)) : p \in Products}

\* the suffixes present: any few of the first ones, or every one the new
\* script can probe
ResolverFolders == (SUBSET (0..(MaxPre + 2))) \cup {0..(ProbeLimit - 1)}

InitResolver ==
    /\ version = "none" /\ df = <<>> /\ reader = <<>>
    /\ exit_code = -1 /\ error = "" /\ idx = 0
    /\ overwrite_all = FALSE /\ output_name = <<>> /\ log = <<>>
    /\ san_in = <<>> /\ san_out = <<>> /\ san_again = <<>>
    /\ res_name \in ResolverNames
    /\ \E present \in ResolverFolders :
          folder = [p \in {candidate(res_name, i) : i \in present} |-> OldDoc]
    /\ pre = <<>>
    /\ pc = "resolve"
    /\ res_out = <<>>

ResolveNew ==
    /\ pc = "resolve"
    /\ res_out' = unique_output_path(folder, res_name)
    /\ pc' = "resolved_new"
    /\ UNCHANGED <<version, df, reader, folder, pre, exit_code, error, idx,
                   overwrite_all, output_name, log, san_in, san_out, san_again,
                   res_name>>

ResolveOld ==
    /\ pc = "resolve"
    /\ res_out' = old_final_output_path(folder, res_name)
    /\ pc' = "resolved_old"
    /\ UNCHANGED <<version, df, reader, folder, pre, exit_code, error, idx,
                   overwrite_all, output_name, log, san_in, san_out, san_again,
                   res_name>>

NextResolver == ResolveNew \/ ResolveOld

SpecResolver == InitResolver /\ [][NextResolver]_vars

\* the number N such that exactly name.pdf, name_1.pdf, ..., name_(N-1).pdf
\* are in the folder, or -1 when the folder is not of that shape
ExactlyFirst ==
    LET n == Cardinality(DOMAIN folder)
    IN  IF DOMAIN folder = {candidate(res_name, i) : i \in 0..(n - 1)}
        THEN n ELSE -1

\* C4: when exactly name.pdf, name_1.pdf, ..., name_(N-1).pdf exist, N >= 1,
\* the resolver returns name_N.pdf.
C4_ResolverReturnsNth ==
    (pc \in {"resolved_new", "resolved_old"} /\ ExactlyFirst >= 1) =>
        res_out = candidate(res_name, ExactlyFirst)

\* what holds of the resolvers: the path returned is not in the folder, every
\* candidate before it is, and below the probing limit of the new script
\* N files name.pdf .. name_(N-1).pdf give name_N.pdf
ResolverFirstFree ==
    pc \in {"resolved_new", "resolved_old"} =>
        \/ /\ res_out = StopIteration
           /\ pc = "resolved_new"
           /\ ExactlyFirst >= ProbeLimit
        \/ \E i \in 0..Cardinality(DOMAIN folder) :
              /\ res_out = candidate(res_name, i)
              /\ res_out \notin DOMAIN folder
              /\ \A j \in 0..(i - 1) : candidate(res_name, j) \in DOMAIN folder
              /\ (ExactlyFirst >= 0 => i = ExactlyFirst)

====
